---------------------------- MODULE Spec2Model ----------------------------
(***************************************************************************)
(* Model of chess_engine.py: the material evaluator (evaluate_board), the  *)
(* depth-limited alpha-beta search (alpha_beta), the root move selector    *)
(* (get_best_move) and the human-vs-AI game loop (main).                   *)
(*                                                                         *)
(* The rules engine (the python-chess Board) is external to the program.   *)
(* It is modelled by a small board game with the same interface: a strip   *)
(* of NumSquares squares, the twelve piece symbols, an ordered             *)
(* legal-move enumeration, push / pop with a move stack, and a game-over    *)
(* test that is true when the side to move has no legal move, when only    *)
(* kings remain, or when the halfmove clock runs out.                      *)
(***************************************************************************)
EXTENDS Integers, Sequences, FiniteSets, TLC

\* ------------------------------------------------------------------------
\* Bounds of the model
\* ------------------------------------------------------------------------
NumSquares == 5
MaxExtra == 1
MaxDepth == 3
MaxHalfmoves == 2
MaxEvents == 3
MaxPieces == 2

\* SEARCH_DEPTH in main
SEARCH_DEPTH == 3

\* ------------------------------------------------------------------------
\* The rules engine: pieces, positions, moves
\* ------------------------------------------------------------------------
WHITE == TRUE
BLACK == FALSE
Colors == {WHITE, BLACK}

Squares == 1..NumSquares
Empty == "."
WhiteSymbols == {"P", "N", "B", "R", "Q", "K"}
BlackSymbols == {"p", "n", "b", "r", "q", "k"}
Symbols == WhiteSymbols \cup BlackSymbols

\* piece.color of the piece with this symbol (upper case is white)
PieceColor(symbol) == symbol \in WhiteSymbols

IsKing(symbol) == symbol \in {"K", "k"}
IsPawn(symbol) == symbol \in {"P", "p"}

\* board.piece_at(square): the symbol on the square, Empty for None
PieceAt(board, square) == board.pieces[square]

\* chess.Move(from_square, to_square)
Move(from_square, to_square) == [from_square |-> from_square, to_square |-> to_square]
NoMove == Move(0, 0)

\* every candidate move, in the enumeration order of the rules engine
AllMoves ==
    [k \in 1..(NumSquares * NumSquares) |->
        Move(((k - 1) \div NumSquares) + 1, ((k - 1) % NumSquares) + 1)]

\* move in board.legal_moves
IsLegal(board, move) ==
    /\ move.from_square \in Squares
    /\ move.to_square \in Squares
    /\ LET piece == PieceAt(board, move.from_square)
           target == PieceAt(board, move.to_square)
       IN /\ piece # Empty
          /\ PieceColor(piece) = board.turn
          /\ IF IsPawn(piece)
                THEN move.to_square = move.from_square + (IF board.turn = WHITE THEN 1 ELSE -1)
                ELSE move.to_square \in {move.from_square - 1, move.from_square + 1}
          /\ \/ target = Empty
             \/ PieceColor(target) # board.turn /\ ~IsKing(target)

\* the moves of one step along the strip, in enumeration order: no other
\* move is ever legal
StepMoves ==
    SelectSeq(AllMoves, LAMBDA m : m.to_square \in {m.from_square - 1, m.from_square + 1})

\* list(board.legal_moves)
LegalMoves(board) == SelectSeq(StepMoves, LAMBDA m : IsLegal(board, m))

\* any(board.legal_moves)
HasLegalMove(board) == \E k \in 1..Len(StepMoves) : IsLegal(board, StepMoves[k])

\* board.push(move)
Push(board, move) ==
    LET piece == PieceAt(board, move.from_square)
        target == PieceAt(board, move.to_square)
    IN [pieces |-> [board.pieces EXCEPT ![move.to_square] = piece,
                                        ![move.from_square] = Empty],
        turn |-> ~board.turn,
        halfmove_clock |-> IF IsPawn(piece) \/ target # Empty
                              THEN 0 ELSE board.halfmove_clock + 1,
        move_stack |-> Append(board.move_stack,
                              [move |-> move,
                               pieces |-> board.pieces,
                               turn |-> board.turn,
                               halfmove_clock |-> board.halfmove_clock])]

\* board.pop()
Pop(board) ==
    LET last == board.move_stack[Len(board.move_stack)]
    IN [pieces |-> last.pieces,
        turn |-> last.turn,
        halfmove_clock |-> last.halfmove_clock,
        move_stack |-> SubSeq(board.move_stack, 1, Len(board.move_stack) - 1)]

OnlyKings(board) == \A s \in Squares : PieceAt(board, s) = Empty \/ IsKing(PieceAt(board, s))

\* board.is_game_over()
IsGameOver(board) ==
    \/ board.halfmove_clock >= MaxHalfmoves
    \/ OnlyKings(board)
    \/ ~HasLegalMove(board)

\* ------------------------------------------------------------------------
\* evaluate_board
\* ------------------------------------------------------------------------
piece_values(symbol) ==
    CASE symbol = "P" -> 1 [] symbol = "N" -> 3 [] symbol = "B" -> 3
      [] symbol = "R" -> 5 [] symbol = "Q" -> 9 [] symbol = "K" -> 0
      [] symbol = "p" -> 1 [] symbol = "n" -> 3 [] symbol = "b" -> 3
      [] symbol = "r" -> 5 [] symbol = "q" -> 9 [] symbol = "k" -> 0

\* the loop over board.piece_map().items(), from square sq on
RECURSIVE EvaluateFrom(_, _, _)
EvaluateFrom(board, ai_color, sq) ==
    IF sq > NumSquares THEN 0
    ELSE LET symbol == PieceAt(board, sq)
             rest == EvaluateFrom(board, ai_color, sq + 1)
         IN IF symbol = Empty THEN rest
            ELSE IF PieceColor(symbol) = ai_color
                    THEN rest + piece_values(symbol)
                    ELSE rest - piece_values(symbol)

\* mutant: the pieces are compared with chess.WHITE, not with ai_color
evaluate_board_for_white(board, ai_color) == EvaluateFrom(board, WHITE, 1)

evaluate_board(board, ai_color) == EvaluateFrom(board, ai_color, 1)

\* float('inf'): above every score evaluate_board can return
PosInf == 9 * NumSquares + 1
NegInf == -PosInf

Max(a, b) == IF a >= b THEN a ELSE b
Min(a, b) == IF a <= b THEN a ELSE b

\* ------------------------------------------------------------------------
\* alpha_beta and get_best_move: the pieces both forms of the search use
\* ------------------------------------------------------------------------
\* board.turn == ai_color
IsMaximizing(board, ai_color) == board.turn = ai_color

\* mutant: the two initial values are exchanged
InitialBestSwapped(is_maximizing) == IF is_maximizing THEN PosInf ELSE NegInf

\* max_eval = -inf / min_eval = +inf / best_value
InitialBest(is_maximizing) == IF is_maximizing THEN NegInf ELSE PosInf

\* mutant: the comparison is turned around (beta >= alpha)
CutoffFlipped(alpha, beta) == beta >= alpha

\* if beta <= alpha: break
Cutoff(alpha, beta) == beta <= alpha

\* mutant: the test for a finished game is missing
IsLeafByDepthOnly(board, depth) == depth = 0

\* the base case's test: depth == 0 or board.is_game_over()
IsLeaf(board, depth) == depth = 0 \/ IsGameOver(board)

\* mutant: the depth is passed on without the decrement
ChildDepthSame(depth) == depth

\* the depth get_best_move and alpha_beta give their recursive calls
ChildDepth(depth) == depth - 1

\* mutant: the comparisons are not strict (>= and <=)
ImprovesOrEqual(is_maximizing, board_value, best_value) ==
    \/ is_maximizing /\ board_value >= best_value
    \/ ~is_maximizing /\ board_value <= best_value

\* get_best_move's test for replacing best_move
Improves(is_maximizing, board_value, best_value) ==
    \/ is_maximizing /\ board_value > best_value
    \/ ~is_maximizing /\ board_value < best_value

\* random.choice(seq) when the generator draws rnd; of an empty list it raises
RandomDraws == 0..(2 * NumSquares - 1)
RandomChoice(seq, rnd) ==
    IF seq = << >> THEN [status |-> "IndexError", move |-> NoMove]
    ELSE [status |-> "random", move |-> seq[(rnd % Len(seq)) + 1]]

\* mutant: the fallback is taken whether or not a best move was found
SelectedAtRandom(best_move, moves, rnd) == RandomChoice(moves, rnd)

\* get_best_move's last lines: the fallback and the return
Selected(best_move, moves, rnd) ==
    IF best_move = NoMove THEN RandomChoice(moves, rnd)
    ELSE [status |-> "best", move |-> best_move]

\* ------------------------------------------------------------------------
\* alpha_beta and get_best_move as functions of their arguments (a call run
\* to completion); rnd is the number the random generator would draw
\* ------------------------------------------------------------------------
RECURSIVE AlphaBeta(_, _, _, _, _)
RECURSIVE MaxLoop(_, _, _, _, _, _, _, _)
RECURSIVE MinLoop(_, _, _, _, _, _, _, _)

\* the maximizing for loop from its i-th move on
MaxLoop(board, depth, alpha, beta, ai_color, moves, i, max_eval) ==
    IF i > Len(moves) THEN max_eval
    ELSE LET pushed_board == Push(board, moves[i])
             eval == AlphaBeta(pushed_board, ChildDepth(depth), alpha, beta, ai_color)
             new_max == Max(max_eval, eval)
             new_alpha == Max(alpha, eval)
         IN IF Cutoff(new_alpha, beta) THEN new_max
            ELSE MaxLoop(Pop(pushed_board), depth, new_alpha, beta, ai_color,
                         moves, i + 1, new_max)

\* the minimizing for loop from its i-th move on
MinLoop(board, depth, alpha, beta, ai_color, moves, i, min_eval) ==
    IF i > Len(moves) THEN min_eval
    ELSE LET pushed_board == Push(board, moves[i])
             eval == AlphaBeta(pushed_board, ChildDepth(depth), alpha, beta, ai_color)
             new_min == Min(min_eval, eval)
             new_beta == Min(beta, eval)
         IN IF Cutoff(alpha, new_beta) THEN new_min
            ELSE MinLoop(Pop(pushed_board), depth, alpha, new_beta, ai_color,
                         moves, i + 1, new_min)

AlphaBeta(board, depth, alpha, beta, ai_color) ==
    IF IsLeaf(board, depth) THEN evaluate_board(board, ai_color)
    ELSE IF IsMaximizing(board, ai_color)
            THEN MaxLoop(board, depth, alpha, beta, ai_color, LegalMoves(board), 1,
                         InitialBest(TRUE))
            ELSE MinLoop(board, depth, alpha, beta, ai_color, LegalMoves(board), 1,
                         InitialBest(FALSE))

\* get_best_move's for loop from its i-th move on
RECURSIVE RootLoop(_, _, _, _, _, _, _)
RootLoop(board, depth, ai_color, moves, i, best_value, best_move) ==
    IF i > Len(moves) THEN best_move
    ELSE LET pushed_board == Push(board, moves[i])
             board_value == AlphaBeta(pushed_board, ChildDepth(depth), NegInf, PosInf, ai_color)
             better == Improves(IsMaximizing(board, ai_color), board_value, best_value)
         IN RootLoop(Pop(pushed_board), depth, ai_color, moves, i + 1,
                     IF better THEN board_value ELSE best_value,
                     IF better THEN moves[i] ELSE best_move)

\* get_best_move up to the end of its for loop: best_move, NoMove for None
BestMove(board, depth, ai_color) ==
    RootLoop(board, depth, ai_color, LegalMoves(board), 1,
             InitialBest(IsMaximizing(board, ai_color)), NoMove)

\* get_best_move(board, depth, ai_color): what it can return, over every
\* number the random generator may draw
GetBestMove(board, depth, ai_color) ==
    LET best_move == BestMove(board, depth, ai_color)
        moves == LegalMoves(board)
    IN {Selected(best_move, moves, rnd) : rnd \in RandomDraws}

\* ------------------------------------------------------------------------
\* State
\* ------------------------------------------------------------------------
VARIABLES
    board,          \* the chess.Board the search and the game loop share
    depth,          \* get_best_move's depth argument
    ai_color,       \* the perspective (ai_color)
    phase,          \* "idle" | "search" | "done" (one get_best_move call)
    frames,         \* the call stack: get_best_move's frame, then alpha_beta's
    result,         \* what get_best_move returned
    root,           \* history: the board when get_best_move was called
    log,            \* history: one entry per root move applied
    running,        \* main: the loop flag
    human_is_white, \* main: the human's side
    selected_sq,    \* main: the selected square, 0 for None
    ai_call,        \* history: the arguments of main's last get_best_move call
    pushed,         \* history: moves main pushed in its current loop iteration
    movers,         \* history: who pushed each move of the game, in order
    main_pc,        \* main: where the game loop stands
    handled,        \* main: events handled in the current loop iteration
    score           \* the value the last evaluate_board call returned

vars == <<board, depth, ai_color, phase, frames, result, root, log,
          running, human_is_white, selected_sq, ai_call, pushed, movers, main_pc,
          handled, score>>

searchVars == <<board, depth, ai_color, phase, frames, result, root, log>>
mainVars == <<running, human_is_white, selected_sq, ai_call, pushed, movers, main_pc,
              handled>>
evalVars == <<score>>

\* ------------------------------------------------------------------------
\* Starting positions: both kings and at most MaxExtra other pieces
\* ------------------------------------------------------------------------
ExtraSymbols == {"P", "Q", "p", "q"}

PieceMaps ==
    {pm \in [Squares -> ExtraSymbols \cup {"K", "k", Empty}] :
        /\ Cardinality({s \in Squares : pm[s] = "K"}) = 1
        /\ Cardinality({s \in Squares : pm[s] = "k"}) = 1
        /\ Cardinality({s \in Squares : pm[s] \in ExtraSymbols}) <= MaxExtra}

Position(pm, turn) ==
    [pieces |-> pm, turn |-> turn, halfmove_clock |-> 0, move_stack |-> << >>]

NoResult == [status |-> "none", move |-> NoMove]
NoCall == [called |-> FALSE, board |-> Position([s \in Squares |-> Empty], WHITE),
           depth |-> 0, ai_color |-> WHITE]

\* ------------------------------------------------------------------------
\* The call stack of one get_best_move call
\* ------------------------------------------------------------------------
Top == frames[Len(frames)]
Caller == frames[Len(frames) - 1]

\* the frame of a function just called: pc "entry"
Frame(fn, d, alpha, beta, b) ==
    [fn |-> fn, pc |-> "entry", depth |-> d,
     alpha |-> alpha, beta |-> beta,
     maximizing |-> FALSE,
     best |-> 0,            \* max_eval / min_eval / best_value
     best_move |-> NoMove,  \* get_best_move's best_move
     moves |-> << >>,       \* the legal moves the for loop runs over
     i |-> 1,               \* index of the loop's current move
     eval |-> 0,            \* the value the last call returned
     alpha0 |-> alpha, beta0 |-> beta,  \* history: the window at entry
     evals |-> << >>,       \* history: the values the children returned
     child_depth |-> 0,     \* history: the depth the last child was given
     child_pushes |-> 0,    \* history: the moves the last child applied
     board0 |-> b]          \* history: the board at entry

\* frames with the top frame replaced
SetTop(f) == [frames EXCEPT ![Len(frames)] = f]

\* the top frame returns value v to its caller
ReturnTo(v) ==
    LET n == Len(frames)
    IN [k \in 1..(n - 1) |->
          IF k = n - 1 THEN [frames[k] EXCEPT !.pc = "returned", !.eval = v,
                                              !.child_depth = frames[n].depth,
                                              !.child_pushes = Len(frames[n].evals)]
                       ELSE frames[k]]

\* ------------------------------------------------------------------------
\* One get_best_move call, step by step
\* ------------------------------------------------------------------------
\* get_best_move(board, depth, ai_color) is called: best_move = None,
\* is_maximizing, best_value, and the for loop starts
GetBestMoveCall ==
    /\ phase = "idle"
    /\ phase' = "search"
    /\ root' = board
    /\ log' = << >>
    /\ frames' = << [Frame("get_best_move", depth, NegInf, PosInf, board) EXCEPT
                        !.pc = "loop",
                        !.maximizing = IsMaximizing(board, ai_color),
                        !.best = InitialBest(IsMaximizing(board, ai_color)),
                        !.moves = LegalMoves(board)] >>
    /\ UNCHANGED <<board, depth, ai_color, result>>
    /\ UNCHANGED <<mainVars, evalVars>>

\* mutant: the root hands its best value so far to the child as a bound
GetBestMovePushNarrowed ==
    /\ phase = "search"
    /\ Top.fn = "get_best_move" /\ Top.pc = "loop"
    /\ Top.i <= Len(Top.moves)
    /\ LET move == Top.moves[Top.i]
           child == Frame("alpha_beta", ChildDepth(Top.depth),
                          IF Top.maximizing THEN Top.best ELSE NegInf,
                          IF Top.maximizing THEN PosInf ELSE Top.best,
                          Push(board, move))
       IN /\ board' = Push(board, move)
          /\ frames' = Append(SetTop([Top EXCEPT !.pc = "called"]), child)
          /\ log' = Append(log, [move |-> move, alpha |-> child.alpha,
                                 beta |-> child.beta, depth |-> child.depth,
                                 value |-> 0, undone |-> 0, pruned |-> 0])
    /\ UNCHANGED <<depth, ai_color, phase, result, root>>
    /\ UNCHANGED <<mainVars, evalVars>>

\* the root loop's body up to the call: board.push(move); alpha_beta(board,
\* depth - 1, -inf, +inf, ai_color)
GetBestMovePush ==
    /\ phase = "search"
    /\ Top.fn = "get_best_move" /\ Top.pc = "loop"
    /\ Top.i <= Len(Top.moves)
    /\ LET move == Top.moves[Top.i]
           child == Frame("alpha_beta", ChildDepth(Top.depth), NegInf, PosInf,
                          Push(board, move))
       IN /\ board' = Push(board, move)
          /\ frames' = Append(SetTop([Top EXCEPT !.pc = "called"]), child)
          /\ log' = Append(log, [move |-> move, alpha |-> child.alpha,
                                 beta |-> child.beta, depth |-> child.depth,
                                 value |-> 0, undone |-> 0, pruned |-> 0])
    /\ UNCHANGED <<depth, ai_color, phase, result, root>>
    /\ UNCHANGED <<mainVars, evalVars>>

\* the root loop's body after the call: board.pop() and the comparison
GetBestMovePop ==
    /\ phase = "search"
    /\ Top.fn = "get_best_move" /\ Top.pc = "returned"
    /\ LET better == Improves(Top.maximizing, Top.eval, Top.best)
       IN /\ board' = Pop(board)
          /\ frames' = SetTop([Top EXCEPT
                                  !.pc = "loop",
                                  !.best = IF better THEN Top.eval ELSE Top.best,
                                  !.best_move = IF better THEN Top.moves[Top.i]
                                                          ELSE Top.best_move,
                                  !.evals = Append(Top.evals, Top.eval),
                                  !.i = Top.i + 1])
          /\ log' = [log EXCEPT ![Len(log)] =
                        [log[Len(log)] EXCEPT !.value = Top.eval,
                                              !.undone = log[Len(log)].undone + 1]]
    /\ UNCHANGED <<depth, ai_color, phase, result, root>>
    /\ UNCHANGED <<mainVars, evalVars>>

\* the root loop is exhausted: the fallback to random.choice, and the return
GetBestMoveReturn ==
    /\ phase = "search"
    /\ Top.fn = "get_best_move" /\ Top.pc = "loop"
    /\ Top.i > Len(Top.moves)
    /\ \E rnd \in RandomDraws :
          result' = Selected(Top.best_move, LegalMoves(board), rnd)
    /\ frames' = << >>
    /\ phase' = "done"
    /\ UNCHANGED <<board, depth, ai_color, root, log>>
    /\ UNCHANGED <<mainVars, evalVars>>

\* alpha_beta's base case: depth == 0 or board.is_game_over()
AlphaBetaBase ==
    /\ phase = "search"
    /\ Top.fn = "alpha_beta" /\ Top.pc = "entry"
    /\ IsLeaf(board, Top.depth)
    /\ frames' = ReturnTo(evaluate_board(board, ai_color))
    /\ UNCHANGED <<board, depth, ai_color, phase, result, root, log>>
    /\ UNCHANGED <<mainVars, evalVars>>

\* alpha_beta's recursive case begins: the branch on board.turn == ai_color,
\* max_eval = -inf or min_eval = +inf, and the for loop starts
AlphaBetaEnter ==
    /\ phase = "search"
    /\ Top.fn = "alpha_beta" /\ Top.pc = "entry"
    /\ ~IsLeaf(board, Top.depth)
    /\ frames' = SetTop([Top EXCEPT
                            !.pc = "loop",
                            !.maximizing = IsMaximizing(board, ai_color),
                            !.best = InitialBest(IsMaximizing(board, ai_color)),
                            !.moves = LegalMoves(board)])
    /\ UNCHANGED <<board, depth, ai_color, phase, result, root, log>>
    /\ UNCHANGED <<mainVars, evalVars>>

\* the loop body up to the call: board.push(move); alpha_beta(board,
\* depth - 1, alpha, beta, ai_color)
AlphaBetaPush ==
    /\ phase = "search"
    /\ Top.fn = "alpha_beta" /\ Top.pc = "loop"
    /\ Top.i <= Len(Top.moves)
    /\ LET move == Top.moves[Top.i]
       IN /\ board' = Push(board, move)
          /\ frames' = Append(SetTop([Top EXCEPT !.pc = "called"]),
                              Frame("alpha_beta", ChildDepth(Top.depth), Top.alpha,
                                    Top.beta, Push(board, move)))
    /\ UNCHANGED <<depth, ai_color, phase, result, root, log>>
    /\ UNCHANGED <<mainVars, evalVars>>

\* the maximizing loop body after the call: board.pop(), max_eval, alpha, and
\* the break when beta <= alpha
AlphaBetaPopMax ==
    /\ phase = "search"
    /\ Top.fn = "alpha_beta" /\ Top.pc = "returned"
    /\ Top.maximizing
    /\ board' = Pop(board)
    /\ LET new_alpha == Max(Top.alpha, Top.eval)
       IN /\ frames' = SetTop([Top EXCEPT
                               !.best = Max(Top.best, Top.eval),
                               !.alpha = new_alpha,
                               !.evals = Append(Top.evals, Top.eval),
                               !.pc = IF Cutoff(new_alpha, Top.beta)
                                         THEN "break" ELSE "loop",
                               !.i = IF Cutoff(new_alpha, Top.beta)
                                        THEN Top.i ELSE Top.i + 1])
          /\ log' = IF Cutoff(new_alpha, Top.beta) /\ Top.i < Len(Top.moves)
                       THEN [log EXCEPT ![Len(log)].pruned = @ + 1]
                       ELSE log
    /\ UNCHANGED <<depth, ai_color, phase, result, root>>
    /\ UNCHANGED <<mainVars, evalVars>>

\* mutant: board.pop() comes after the break test, so a break skips it
AlphaBetaPopMinAfterBreak ==
    /\ phase = "search"
    /\ Top.fn = "alpha_beta" /\ Top.pc = "returned"
    /\ ~Top.maximizing
    /\ LET new_beta == Min(Top.beta, Top.eval)
       IN /\ board' = IF Cutoff(Top.alpha, new_beta) THEN board ELSE Pop(board)
          /\ frames' = SetTop([Top EXCEPT
                               !.best = Min(Top.best, Top.eval),
                               !.beta = new_beta,
                               !.evals = Append(Top.evals, Top.eval),
                               !.pc = IF Cutoff(Top.alpha, new_beta)
                                         THEN "break" ELSE "loop",
                               !.i = IF Cutoff(Top.alpha, new_beta)
                                        THEN Top.i ELSE Top.i + 1])
          /\ log' = IF Cutoff(Top.alpha, new_beta) /\ Top.i < Len(Top.moves)
                       THEN [log EXCEPT ![Len(log)].pruned = @ + 1]
                       ELSE log
    /\ UNCHANGED <<depth, ai_color, phase, result, root>>
    /\ UNCHANGED <<mainVars, evalVars>>

\* the minimizing loop body after the call: board.pop(), min_eval, beta, and
\* the break when beta <= alpha
AlphaBetaPopMin ==
    /\ phase = "search"
    /\ Top.fn = "alpha_beta" /\ Top.pc = "returned"
    /\ ~Top.maximizing
    /\ board' = Pop(board)
    /\ LET new_beta == Min(Top.beta, Top.eval)
       IN /\ frames' = SetTop([Top EXCEPT
                               !.best = Min(Top.best, Top.eval),
                               !.beta = new_beta,
                               !.evals = Append(Top.evals, Top.eval),
                               !.pc = IF Cutoff(Top.alpha, new_beta)
                                         THEN "break" ELSE "loop",
                               !.i = IF Cutoff(Top.alpha, new_beta)
                                        THEN Top.i ELSE Top.i + 1])
          /\ log' = IF Cutoff(Top.alpha, new_beta) /\ Top.i < Len(Top.moves)
                       THEN [log EXCEPT ![Len(log)].pruned = @ + 1]
                       ELSE log
    /\ UNCHANGED <<depth, ai_color, phase, result, root>>
    /\ UNCHANGED <<mainVars, evalVars>>

\* return max_eval / return min_eval: the loop is exhausted or was broken
AlphaBetaReturn ==
    /\ phase = "search"
    /\ Top.fn = "alpha_beta"
    /\ \/ Top.pc = "break"
       \/ Top.pc = "loop" /\ Top.i > Len(Top.moves)
    /\ frames' = ReturnTo(Top.best)
    /\ UNCHANGED <<board, depth, ai_color, phase, result, root, log>>
    /\ UNCHANGED <<mainVars, evalVars>>

\* ------------------------------------------------------------------------
\* Specification of the search: get_best_move called once on any starting
\* position, for either perspective, at any depth in 1..MaxDepth
\* ------------------------------------------------------------------------
Init ==
    /\ \E pm \in PieceMaps, turn \in Colors : board = Position(pm, turn)
    /\ depth \in 1..MaxDepth
    /\ ai_color \in Colors
    /\ phase = "idle"
    /\ frames = << >>
    /\ result = NoResult
    /\ root = board
    /\ log = << >>
    /\ running = FALSE
    /\ human_is_white = TRUE
    /\ selected_sq = 0
    /\ ai_call = NoCall
    /\ pushed = 0
    /\ movers = << >>
    /\ main_pc = "none"
    /\ handled = 0
    /\ score = 0

Next ==
    \/ GetBestMoveCall
    \/ GetBestMovePush
    \/ GetBestMovePop
    \/ GetBestMoveReturn
    \/ AlphaBetaBase
    \/ AlphaBetaEnter
    \/ AlphaBetaPush
    \/ AlphaBetaPopMax
    \/ AlphaBetaPopMin
    \/ AlphaBetaReturn

Spec == Init /\ [][Next]_vars

\* ------------------------------------------------------------------------
\* Specification of the evaluator: evaluate_board called once on any
\* placement of at most MaxPieces pieces, for either perspective
\* ------------------------------------------------------------------------
EvalMaps ==
    {pm \in [Squares -> Symbols \cup {Empty}] :
        Cardinality({s \in Squares : pm[s] # Empty}) <= MaxPieces}

EvalInit ==
    /\ \E pm \in EvalMaps, turn \in Colors : board = Position(pm, turn)
    /\ depth = 0
    /\ ai_color \in Colors
    /\ phase = "idle"
    /\ frames = << >>
    /\ result = NoResult
    /\ root = board
    /\ log = << >>
    /\ running = FALSE
    /\ human_is_white = TRUE
    /\ selected_sq = 0
    /\ ai_call = NoCall
    /\ pushed = 0
    /\ movers = << >>
    /\ main_pc = "none"
    /\ handled = 0
    /\ score = 0

\* evaluate_board(board, ai_color) is called and returns
EvaluateBoardCall ==
    /\ phase = "idle"
    /\ score' = evaluate_board(board, ai_color)
    /\ phase' = "done"
    /\ UNCHANGED <<board, depth, ai_color, frames, result, root, log>>
    /\ UNCHANGED mainVars

EvalNext == EvaluateBoardCall

SpecEval == EvalInit /\ [][EvalNext]_vars

\* ------------------------------------------------------------------------
\* main: the game loop
\* ------------------------------------------------------------------------
\* flip_board = not human_is_white
flip_board == ~human_is_white

\* get_square_from_mouse on the strip: the square under display column pos
get_square_from_mouse(pos, flip) == IF flip THEN NumSquares + 1 - pos ELSE pos

\* (color == chess.WHITE and human_is_white) or (color == chess.BLACK and not
\* human_is_white)
IsHumanColor(color) ==
    \/ color = WHITE /\ human_is_white
    \/ color = BLACK /\ ~human_is_white

\* the while test and the branch on human_turn
MainLoopTop ==
    /\ main_pc = "loop"
    /\ running
    /\ main_pc' = IF IsHumanColor(board.turn) THEN "human_events" ELSE "ai_events"
    /\ pushed' = 0
    /\ handled' = 0
    /\ UNCHANGED <<running, human_is_white, selected_sq, ai_call, movers>>
    /\ UNCHANGED <<searchVars, evalVars>>

\* a QUIT event, in either branch: running = False; pygame.quit(); sys.exit()
MainQuit ==
    /\ main_pc \in {"human_events", "ai_events"}
    /\ running' = FALSE
    /\ main_pc' = "exited"
    /\ UNCHANGED <<human_is_white, selected_sq, ai_call, pushed, movers, handled>>
    /\ UNCHANGED <<searchVars, evalVars>>

\* the human branch handles a MOUSEBUTTONDOWN event at display column pos
MainHumanClick(pos) ==
    /\ main_pc = "human_events"
    /\ handled < MaxEvents
    /\ handled' = handled + 1
    /\ LET sq == get_square_from_mouse(pos, flip_board)
           piece == PieceAt(board, sq)
           move == Move(selected_sq, sq)
       IN IF selected_sq = 0
             THEN /\ selected_sq' = IF piece # Empty /\ IsHumanColor(PieceColor(piece))
                                       THEN sq ELSE selected_sq
                  /\ UNCHANGED <<board, pushed, movers>>
             ELSE /\ IF IsLegal(board, move)
                        THEN /\ board' = Push(board, move)
                             /\ pushed' = pushed + 1
                             /\ movers' = Append(movers, "human")
                        ELSE UNCHANGED <<board, pushed, movers>>
                  /\ selected_sq' = 0
    /\ UNCHANGED <<running, human_is_white, ai_call, main_pc>>
    /\ UNCHANGED <<depth, ai_color, phase, frames, result, root, log, evalVars>>

\* the human branch's event queue is exhausted
MainHumanEventsDone ==
    /\ main_pc = "human_events"
    /\ main_pc' = "check"
    /\ UNCHANGED <<running, human_is_white, selected_sq, ai_call, pushed, movers, handled>>
    /\ UNCHANGED <<searchVars, evalVars>>

\* the AI branch without a QUIT event: get_best_move(board, SEARCH_DEPTH,
\* ai_color) and board.push(ai_move); random.choice of no move raises
MainAIMove ==
    /\ main_pc = "ai_events"
    /\ ai_call' = [called |-> TRUE, board |-> board, depth |-> SEARCH_DEPTH,
                   ai_color |-> ai_color]
    /\ \E ai_move \in GetBestMove(board, SEARCH_DEPTH, ai_color) :
             IF ai_move.status = "IndexError"
                THEN /\ main_pc' = "exited"
                     /\ UNCHANGED <<board, pushed, movers>>
                ELSE /\ board' = Push(board, ai_move.move)
                     /\ pushed' = pushed + 1
                     /\ movers' = Append(movers, "ai")
                     /\ main_pc' = "check"
    /\ UNCHANGED <<running, human_is_white, selected_sq, handled>>
    /\ UNCHANGED <<depth, ai_color, phase, frames, result, root, log, evalVars>>

\* mutant: the loop does not stop when the game is over
MainCheckGameOverSkipped ==
    /\ main_pc = "check"
    /\ main_pc' = "loop"
    /\ UNCHANGED <<running, human_is_white, selected_sq, ai_call, pushed, movers, handled>>
    /\ UNCHANGED <<searchVars, evalVars>>

\* the redraw and the game-over check closing a loop iteration
MainCheckGameOver ==
    /\ main_pc = "check"
    /\ running' = IF IsGameOver(board) THEN FALSE ELSE running
    /\ main_pc' = "loop"
    /\ UNCHANGED <<human_is_white, selected_sq, ai_call, pushed, movers, handled>>
    /\ UNCHANGED <<searchVars, evalVars>>

\* main up to the loop: board = chess.Board() is a game in progress with
\* White to move; the human picks a side and the AI gets the other
MainInit ==
    /\ \E pm \in PieceMaps : board = Position(pm, WHITE)
    /\ ~IsGameOver(board)
    /\ human_is_white \in BOOLEAN
    /\ ai_color = (IF human_is_white THEN BLACK ELSE WHITE)
    /\ selected_sq = 0
    /\ running = TRUE
    /\ main_pc = "loop"
    /\ ai_call = NoCall
    /\ pushed = 0
    /\ movers = << >>
    /\ handled = 0
    /\ depth = SEARCH_DEPTH
    /\ phase = "idle"
    /\ frames = << >>
    /\ result = NoResult
    /\ root = board
    /\ log = << >>
    /\ score = 0

MainNext ==
    \/ MainLoopTop
    \/ MainQuit
    \/ \E pos \in Squares : MainHumanClick(pos)
    \/ MainHumanEventsDone
    \/ MainAIMove
    \/ MainCheckGameOver

SpecMain == MainInit /\ [][MainNext]_vars

\* ------------------------------------------------------------------------
\* Reference definitions the properties are stated with
\* ------------------------------------------------------------------------
SetMax(S) == CHOOSE x \in S : \A y \in S : x >= y
SetMin(S) == CHOOSE x \in S : \A y \in S : x <= y

SeqToSet(seq) == {seq[k] : k \in 1..Len(seq)}

\* exhaustive minimax of position b to depth d for perspective c: no window,
\* no pruning
RECURSIVE Minimax(_, _, _)
Minimax(b, d, c) ==
    IF d = 0 \/ IsGameOver(b) THEN evaluate_board(b, c)
    ELSE LET values == {Minimax(Push(b, m), d - 1, c) : m \in SeqToSet(LegalMoves(b))}
         IN IF b.turn = c THEN SetMax(values) ELSE SetMin(values)

\* the minimax value of the position a root move leads to
RootValue(m) == Minimax(Push(root, m), depth - 1, ai_color)
RootValues == {RootValue(m) : m \in SeqToSet(LegalMoves(root))}
RootOptimum == IF root.turn = ai_color THEN SetMax(RootValues) ELSE SetMin(RootValues)

\* get_best_move's frame is at the head of its loop
AtRootLoop == phase = "search" /\ Len(frames) = 1 /\ frames[1].pc = "loop"

\* the frames that have pushed a move and not yet popped it
Pending == {k \in 1..Len(frames) : frames[k].pc \in {"called", "returned"}}

Finite(v) == NegInf < v /\ v < PosInf

\* C1: the value get_best_move obtains for each root move equals the
\* exhaustive minimax value of that child at depth - 1, and the move it returns
\* attains the optimum of those minimax values (maximum when the root side is
\* the perspective, minimum otherwise).
C1_RootEqualsMinimax ==
    /\ (AtRootLoop /\ log # << >>) =>
          log[Len(log)].value = RootValue(log[Len(log)].move)
    /\ (phase = "done" /\ LegalMoves(root) # << >>) =>
          /\ result.move \in SeqToSet(LegalMoves(root))
          /\ RootValue(result.move) = RootOptimum

\* a call has returned in which a cutoff skipped moves and the root moves
\* have different values
C1_Witness ==
    /\ phase = "done" /\ result.status = "best"
    /\ \E k \in 1..Len(log) : log[k].pruned > 0
    /\ \E j, k \in 1..Len(log) : log[j].value # log[k].value

\* C2: when get_best_move has returned the board equals the board at the
\* call (pieces, turn, clock, move stack); whenever alpha_beta is about to
\* return (base case, exhausted loop or break) the board equals the board it
\* was entered with, and when a caller resumes the board is still the one it
\* handed over; the moves on the stack above the root's are exactly the
\* pushes not yet popped.
C2_BoardRestored ==
    /\ phase = "done" => board = root
    /\ phase = "search" =>
          /\ Top.pc \in {"entry", "loop", "break"} => board = Top.board0
          /\ Top.pc = "returned" => board = Push(Top.board0, Top.moves[Top.i])
          /\ Len(board.move_stack) = Len(root.move_stack) + Cardinality(Pending)

\* get_best_move has returned after a search in which alpha_beta left a loop
\* through break
C2_Witness ==
    /\ phase = "done" /\ board = root
    /\ \E k \in 1..Len(log) : log[k].pruned > 0 /\ log[k].undone = 1

\* the first index of seq holding value v
FirstIndex(seq, v) == SetMin({k \in 1..Len(seq) : seq[k] = v})
BestOf(is_maximizing, seq) ==
    IF is_maximizing THEN SetMax(SeqToSet(seq)) ELSE SetMin(SeqToSet(seq))

\* C3: throughout the root loop best_move is the first move, in enumeration
\* order, whose score equals the best score seen so far, and the move
\* get_best_move returns is the first legal root move with the best score.
C3_FirstBestWins ==
    /\ (phase = "search" /\ frames[1].evals # << >>) =>
          LET f == frames[1]
          IN /\ f.best = BestOf(f.maximizing, f.evals)
             /\ f.best_move = f.moves[FirstIndex(f.evals, f.best)]
    /\ (phase = "done" /\ log # << >>) =>
          LET values == [k \in 1..Len(log) |-> log[k].value]
              first == FirstIndex(values, BestOf(root.turn = ai_color, values))
          IN /\ result.status = "best"
             /\ result.move = LegalMoves(root)[first]

\* get_best_move has returned the earlier of two root moves that share the
\* best score, while another root move scores differently
C3_Witness ==
    /\ phase = "done" /\ Len(log) >= 3
    /\ LET values == [k \in 1..Len(log) |-> log[k].value]
           best == BestOf(root.turn = ai_color, values)
       IN /\ Cardinality({k \in 1..Len(log) : values[k] = best}) >= 2
          /\ \E k \in 1..Len(log) : values[k] # best
          /\ result.move = log[FirstIndex(values, best)].move
          /\ FirstIndex(values, best) > 1

\* C4: with a legal move at the root, the move the call returned is the
\* one move get_best_move can return on the same position, depth and
\* perspective, whatever the random generator draws.
C4_Deterministic ==
    (phase = "done" /\ LegalMoves(root) # << >>) =>
        GetBestMove(root, depth, ai_color) = {result}

\* a call on a position with several legal moves has returned
C4_Witness ==
    /\ phase = "done" /\ Len(LegalMoves(root)) >= 3
    /\ result \in GetBestMove(root, depth, ai_color)
    /\ result.move # LegalMoves(root)[2]

Windows == {<<NegInf, PosInf>>, <<-1, 1>>, <<0, 0>>, <<1, -1>>}

\* alpha_beta has just returned to its caller from a leaf: it was given
\* depth 0 or a finished game (the board is still the one it was given)
ReturnedFromLeaf ==
    /\ phase = "search" /\ Top.pc = "returned"
    /\ (Top.child_depth = 0 \/ IsGameOver(board))

\* C6: on any position with depth 0, and on any finished game at any depth,
\* alpha_beta returns evaluate_board(position, perspective) for every window;
\* in the search a call on such a position returns that value without having
\* applied a move.
C6_BaseCase ==
    /\ (phase = "idle" \/ (phase = "search" /\ Top.pc = "entry")) =>
          /\ \A w \in Windows :
                AlphaBeta(board, 0, w[1], w[2], ai_color) = evaluate_board(board, ai_color)
          /\ IsGameOver(board) =>
                \A d \in 1..MaxDepth, w \in Windows :
                    AlphaBeta(board, d, w[1], w[2], ai_color) = evaluate_board(board, ai_color)
    /\ ReturnedFromLeaf =>
          /\ Top.eval = evaluate_board(board, ai_color)
          /\ Top.child_pushes = 0

\* alpha_beta has returned from a finished game, with legal moves left, that
\* it was given at a depth above 0
C6_Witness ==
    /\ phase = "search" /\ Top.pc = "returned"
    /\ Top.child_depth > 0
    /\ IsGameOver(board) /\ LegalMoves(board) # << >>
    /\ Top.child_pushes = 0
    /\ Top.eval = evaluate_board(board, ai_color)
    /\ Top.eval # 0

RECURSIVE FoldMax(_, _)
FoldMax(v, seq) == IF seq = << >> THEN v ELSE FoldMax(IF seq[1] > v THEN seq[1] ELSE v, Tail(seq))
RECURSIVE FoldMin(_, _)
FoldMin(v, seq) == IF seq = << >> THEN v ELSE FoldMin(IF seq[1] < v THEN seq[1] ELSE v, Tail(seq))

\* C7: the root moves applied so far are the first legal root moves in
\* enumeration order, each applied once, undone once (all but the one being
\* searched) and searched with the window (-inf, +inf); when the call returns
\* every legal root move has been. get_best_move's own bounds never change.
\* Inside alpha_beta the running call was entered with its caller's current
\* bounds, and its bounds are its entry window tightened by the values of
\* the children searched so far: alpha at a maximizing node, beta at a
\* minimizing one.
C7_NoRootPruning ==
    /\ \A k \in 1..Len(log) :
          /\ log[k].alpha = NegInf /\ log[k].beta = PosInf
          /\ log[k].undone = (IF k = Len(log) /\ phase = "search" /\ frames[1].pc # "loop"
                                 THEN 0 ELSE 1)
    /\ (AtRootLoop \/ phase = "done") =>
          [k \in 1..Len(log) |-> log[k].move] = SubSeq(LegalMoves(root), 1, Len(log))
    /\ phase = "done" => Len(log) = Len(LegalMoves(root))
    /\ phase = "search" =>
          /\ [k \in 1..Len(log) |-> log[k].move] = SubSeq(frames[1].moves, 1, Len(log))
          /\ Len(log) = IF frames[1].pc = "loop" THEN frames[1].i - 1 ELSE frames[1].i
          /\ frames[1].alpha = NegInf /\ frames[1].beta = PosInf
          /\ Len(frames) >= 2 =>
                /\ Top.fn = "alpha_beta"
                /\ Top.alpha0 = Caller.alpha
                /\ Top.beta0 = Caller.beta
                /\ Top.pc # "entry" =>
                      IF Top.maximizing
                         THEN Top.alpha = FoldMax(Top.alpha0, Top.evals) /\ Top.beta = Top.beta0
                         ELSE Top.beta = FoldMin(Top.beta0, Top.evals) /\ Top.alpha = Top.alpha0

\* a later root move is searched with the full window although earlier root
\* moves already have scores, while below it a child is entered with a
\* window its earlier siblings tightened
C7_Witness ==
    /\ phase = "search" /\ Len(log) >= 2
    /\ log[1].value # 0
    /\ Len(frames) >= 3
    /\ frames[2].alpha0 = NegInf /\ frames[2].beta0 = PosInf
    /\ Top.pc = "entry"
    /\ (Finite(Top.alpha0) \/ Finite(Top.beta0))

RECURSIVE ApplyAll(_, _)
ApplyAll(b, path) == IF path = << >> THEN b ELSE ApplyAll(Push(b, path[1]), Tail(path))

\* the moves of the current search path, root first
SearchPath ==
    [k \in 1..Cardinality(Pending) |-> frames[k].moves[frames[k].i]]

\* C8: during a get_best_move call with depth D the board is the root
\* position with the moves of the current search path applied in order; the
\* alpha_beta frame k levels below the root has remaining depth D - k and is
\* entered with exactly k moves pushed and not popped, so at most D moves are
\* ever pending; and every move of a loop is applied to the position the loop
\* started from.
C8_SearchPath ==
    phase = "search" =>
        /\ Pending = 1..Cardinality(Pending)
        /\ board = ApplyAll(root, SearchPath)
        /\ Cardinality(Pending) <= depth
        /\ \A k \in 2..Len(frames) :
              /\ frames[k].depth = depth - (k - 1)
              /\ frames[k].depth >= 0
              /\ Len(frames[k].board0.move_stack) - Len(root.move_stack) = depth - frames[k].depth
        /\ Top.pc = "entry" =>
              Len(board.move_stack) - Len(root.move_stack) = depth - Top.depth
        /\ Top.pc = "loop" => board = Top.board0

\* alpha_beta is entered with remaining depth 0, MaxDepth plies below the
\* root, after earlier siblings were explored
C8_Witness ==
    /\ phase = "search" /\ depth = MaxDepth
    /\ Top.pc = "entry" /\ Top.depth = 0
    /\ Len(board.move_stack) = MaxDepth
    /\ Caller.i > 1

\* C9: when the root has a legal move, every value alpha_beta returns is
\* finite, every loop alpha_beta starts has a move to run over, the first
\* root move becomes best_move, and get_best_move returns a move it selected:
\* the random fallback is not taken.
C9_NoFallback ==
    HasLegalMove(root) =>
        /\ phase = "search" =>
              /\ Top.pc = "returned" => Finite(Top.eval)
              /\ (Top.fn = "alpha_beta" /\ Top.pc # "entry") => Top.moves # << >>
              /\ frames[1].i >= 2 => frames[1].best_move # NoMove
              /\ (frames[1].i = 2 /\ frames[1].pc = "loop") =>
                    frames[1].best_move = frames[1].moves[1]
        /\ phase = "done" => result.status = "best" /\ result.move # NoMove

\* get_best_move has returned a selected move on a position that counts as
\* finished although it has legal moves
C9_Witness ==
    /\ phase = "done" /\ result.status = "best"
    /\ IsGameOver(root) /\ Len(LegalMoves(root)) >= 2

\* ------------------------------------------------------------------------
\* evaluate_board
\* ------------------------------------------------------------------------
CountOf(b, symbol) == Cardinality({s \in Squares : b.pieces[s] = symbol})

\* the material of one side with the weights P=1, N=3, B=3, R=5, Q=9, K=0
Material(b, color) ==
    IF color = WHITE
       THEN 1 * CountOf(b, "P") + 3 * CountOf(b, "N") + 3 * CountOf(b, "B")
            + 5 * CountOf(b, "R") + 9 * CountOf(b, "Q") + 0 * CountOf(b, "K")
       ELSE 1 * CountOf(b, "p") + 3 * CountOf(b, "n") + 3 * CountOf(b, "b")
            + 5 * CountOf(b, "r") + 9 * CountOf(b, "q") + 0 * CountOf(b, "k")

\* C5: the score evaluate_board returns for one color is the negation of
\* its score for the other color, it is the material of the perspective color
\* minus the material of the other color, and the board is left as it was.
C5_EvaluationSymmetry ==
    phase = "done" =>
        /\ score = -evaluate_board(board, ~ai_color)
        /\ score = Material(board, ai_color) - Material(board, ~ai_color)
        /\ board = root

\* evaluate_board has scored a position holding pieces of both colors with
\* unequal material
C5_Witness ==
    /\ phase = "done" /\ score = -2
    /\ \E s, t \in Squares : PieceColor(board.pieces[s]) = ai_color /\ board.pieces[s] # Empty
                             /\ board.pieces[t] \in Symbols
                             /\ PieceColor(board.pieces[t]) # ai_color

\* ------------------------------------------------------------------------
\* main
\* ------------------------------------------------------------------------
\* the board the k-th move of the game was pushed on
BoardBefore(k) ==
    [pieces |-> board.move_stack[k].pieces,
     turn |-> board.move_stack[k].turn,
     halfmove_clock |-> board.move_stack[k].halfmove_clock,
     move_stack |-> SubSeq(board.move_stack, 1, k - 1)]

\* C10: get_best_move is called only on a game that is not over, with the
\* AI's color to move, for the AI's color and with depth 3; a loop iteration
\* pushes at most one move; every move on the game's stack was legal for the
\* side to move when pushed; and the movers alternate, human and AI in turn,
\* each moving the pieces of its own color.
C10_MainLoop ==
    /\ ai_call.called =>
          /\ ~IsGameOver(ai_call.board)
          /\ ai_call.board.turn = ai_color
          /\ ai_call.ai_color = ai_color
          /\ ai_call.depth = 3
    /\ pushed <= 1
    /\ \A k \in 1..Len(board.move_stack) :
          /\ IsLegal(BoardBefore(k), board.move_stack[k].move)
          /\ board.move_stack[k].turn = (IF k % 2 = 1 THEN WHITE ELSE BLACK)
    /\ board.turn = (IF Len(board.move_stack) % 2 = 0 THEN WHITE ELSE BLACK)
    /\ Len(movers) = Len(board.move_stack)
    /\ \A k \in 1..Len(movers) :
          /\ movers[k] = (IF IsHumanColor(board.move_stack[k].turn) THEN "human" ELSE "ai")
          /\ k > 1 => movers[k] # movers[k - 1]

\* the human moved and then selected a piece again within one loop
\* iteration, after the AI has already played
C10_Witness ==
    /\ main_pc = "human_events"
    /\ pushed = 1 /\ handled >= 3
    /\ selected_sq # 0
    /\ ai_call.called
    /\ board.turn = ai_color

====
